---- MODULE Spec2Model ----
(***************************************************************************)
(* A model of the ARO metadata agent (aro_agent backend): the shared       *)
(* retrying HTTP GET, the paginating FetchAgent, and the CoordinatorAgent  *)
(* run pipeline (extract, year filter, dedup, persist, diff, manifest).    *)
(*                                                                         *)
(* Strings are sequences of one-character strings.  In identifier strings  *)
(* the token "H" stands for the literal text "https://doi.org/" and the    *)
(* token "arxiv:" for the literal text "arxiv:".                           *)
(***************************************************************************)
EXTENDS Integers, Sequences, FiniteSets, TLC

\* ------------------------------------------------------------------ bounds
MaxRecs == 2         \* records one fetch+extract hands to the pipeline
MaxRuns == 2         \* CoordinatorAgent.run invocations in one behaviour
MaxClock == 2        \* wall-clock seconds the model observes
MaxPages == 4        \* a PaginationPolicy's max_pages
MaxItems == 2        \* items a server puts on one page
MaxLimit == 5        \* per_source_limit

\* -------------------------------------------------------- program constants
Retries == 5
RETRYABLE_STATUS == {429, 500, 502, 503, 504}

\* ---------------------------------------------------------- python values
\* None where a str is expected, and None where an int is expected
NoStr == <<"<None>">>
NoInt == -1
TruthyStr(s) == s # NoStr /\ s # <<>>
TruthyInt(n) == n # NoInt /\ n # 0

RECURSIVE SeqSum(_)
SeqSum(s) == IF s = <<>> THEN 0 ELSE Head(s) + SeqSum(Tail(s))

SeqsUpTo(S, n) == UNION {[1..k -> S] : k \in 0..n}

\* ------------------------------------------------------------ str methods
IsSpace(c) == c = " "

RECURSIVE LStrip(_)
LStrip(s) == IF s # <<>> /\ IsSpace(Head(s)) THEN LStrip(Tail(s)) ELSE s

RECURSIVE RStrip(_)
RStrip(s) ==
    IF s # <<>> /\ IsSpace(s[Len(s)]) THEN RStrip(SubSeq(s, 1, Len(s) - 1)) ELSE s

Strip(s) == RStrip(LStrip(s))

LowerChar(c) == CASE c = "A" -> "a" [] c = "B" -> "b" [] c = "U" -> "H" [] OTHER -> c
Lower(s) == [i \in 1..Len(s) |-> LowerChar(s[i])]

StartsWith(s, c) == s # <<>> /\ Head(s) = c

\* s.split(c)[1] for a string s that starts with the token c: the text between
\* the first and the second occurrence of c
RECURSIVE UpTo(_, _)
UpTo(s, c) == IF s = <<>> \/ Head(s) = c THEN <<>> ELSE <<Head(s)>> \o UpTo(Tail(s), c)

SplitSecond(s, c) == UpTo(Tail(s), c)

Digits == {"0", "1", "2", "3", "4", "5", "6", "7", "8", "9"}
DigitVal(c) == CHOOSE n \in 0..9 : ToString(n) = c

IsDigit(s) == s # <<>> /\ \A i \in 1..Len(s) : s[i] \in Digits

RECURSIVE ParseInt(_)
ParseInt(s) ==
    IF s = <<>> THEN 0 ELSE 10 * ParseInt(SubSeq(s, 1, Len(s) - 1)) + DigitVal(s[Len(s)])

Prefix(s, n) == SubSeq(s, 1, IF Len(s) < n THEN Len(s) ELSE n)


\* ------------------------------------------------------------------- data
Sources == {"arxiv", "crossref", "doaj"}

\* A Record, reduced to the fields the pipeline reads (source, doi, arxiv_id,
\* published) and one payload field (title) standing for the rest.
Rec(src, doi, ax, title, pub) ==
    [source |-> src, doi |-> doi, arxiv_id |-> ax, title |-> title, published |-> pub]

D2019 == <<"2", "0", "1", "9", "-", "1", "2", "-", "3", "1">>
D2020 == <<"2", "0", "2", "0", "-", "0", "1", "-", "0", "2">>
D2022 == <<"2", "0", "2", "2", "-", "0", "1", "-", "0", "1">>
Y2020 == <<"2", "0", "2", "0">>
DBad  == <<"2", "0", "x", "0", "-", "0", "1">>
DShort == <<"2", "0", "2">>

\* What the three parsers can produce: Crossref and DOAJ records never carry an
\* arXiv ID; a DOI is None, empty (the input was a bare doi.org prefix) or a
\* lowercase string.
RecordPool ==
    { Rec("arxiv", NoStr, <<"x">>, "t1", D2020),
      Rec("arxiv", <<"a">>, <<"x">>, "t2", DBad),
      Rec("arxiv", NoStr, NoStr, "t1", NoStr),
      Rec("crossref", <<"a">>, NoStr, "t1", D2019),
      Rec("crossref", <<>>, NoStr, "t2", D2022),
      Rec("crossref", <<"b">>, NoStr, "t1", NoStr),
      Rec("doaj", <<"a">>, NoStr, "t2", Y2020),
      Rec("doaj", NoStr, NoStr, "t1", DShort) }

FromYears == {NoInt, 0, 2020}
ToYears == {NoInt, 0, 2021}
Queries == {<<"q">>, <<"q", " ">>, <<"Q">>}

\* ------------------------------------------------- coordinator: pure parts
\* _year_ok, the closure of CoordinatorAgent.run over from_year and to_year
YearOk(published, fy, ty) ==
    IF ~(TruthyInt(fy) \/ TruthyInt(ty)) THEN TRUE
    ELSE IF ~TruthyStr(published) \/ Len(published) < 4 \/ ~IsDigit(Prefix(published, 4))
         THEN FALSE
    ELSE LET y == ParseInt(Prefix(published, 4)) IN
         IF fy # NoInt /\ y < fy THEN FALSE
         ELSE IF ty # NoInt /\ y > ty THEN FALSE
         ELSE TRUE

YearFilter(recs, fy, ty) == SelectSeq(recs, LAMBDA r : YearOk(r.published, fy, ty))

\* key = r.doi or (f"arxiv:{r.arxiv_id}" if r.arxiv_id else None)
DedupKey(r) ==
    IF TruthyStr(r.doi) THEN r.doi
    ELSE IF TruthyStr(r.arxiv_id) THEN <<"arxiv:">> \o r.arxiv_id
    ELSE NoStr

\* the dedup loop: dict insertion keeps the first record of each key, and
\* list(dedup.values()) lists them in insertion order
\* a dedup whose dict assignment is unconditional: the last record of a key wins
RECURSIVE DedupLoopLastWins(_, _, _)
DedupLoopLastWins(recs, keys, out) ==
    IF recs = <<>> THEN out
    ELSE LET r == Head(recs)
             key == DedupKey(r)
         IN  IF ~TruthyStr(key) THEN DedupLoopLastWins(Tail(recs), keys, out)
             ELSE IF key \notin keys
             THEN DedupLoopLastWins(Tail(recs), keys \cup {key}, Append(out, r))
             ELSE DedupLoopLastWins(Tail(recs), keys,
                      [i \in 1..Len(out) |-> IF DedupKey(out[i]) = key THEN r ELSE out[i]])

\* a dedup that forgets the `key and` test: an unkeyed record is kept under None
RECURSIVE DedupLoopKeepsUnkeyed(_, _, _)
DedupLoopKeepsUnkeyed(recs, keys, out) ==
    IF recs = <<>> THEN out
    ELSE LET r == Head(recs)
             key == DedupKey(r)
         IN  IF key \notin keys
             THEN DedupLoopKeepsUnkeyed(Tail(recs), keys \cup {key}, Append(out, r))
             ELSE DedupLoopKeepsUnkeyed(Tail(recs), keys, out)

RECURSIVE DedupLoop(_, _, _)
DedupLoop(recs, keys, out) ==
    IF recs = <<>> THEN out
    ELSE LET r == Head(recs)
             key == DedupKey(r)
         IN  IF TruthyStr(key) /\ key \notin keys
             THEN DedupLoop(Tail(recs), keys \cup {key}, Append(out, r))
             ELSE DedupLoop(Tail(recs), keys, out)

Dedup(recs) == DedupLoop(recs, {}, <<>>)

\* ---------------------------------------------------- storage: pure parts
\* _primary_id_from_row (storage.py, and its copy on CoordinatorAgent)
PrimaryIdFromRow(r) ==
    LET d0 == Lower(Strip(IF TruthyStr(r.doi) THEN r.doi ELSE <<>>))
        doi == IF StartsWith(d0, "H") THEN SplitSecond(d0, "H") ELSE d0
        arxiv == Lower(Strip(IF TruthyStr(r.arxiv_id) THEN r.arxiv_id ELSE <<>>))
    IN  IF doi # <<>> THEN doi
        ELSE IF arxiv # <<>> THEN <<"arxiv:">> \o arxiv
        ELSE NoStr

\* save_all: data = [asdict(r) ...] with r["primary_id"] computed for each row
Row(r) ==
    [source |-> r.source, doi |-> r.doi, arxiv_id |-> r.arxiv_id, title |-> r.title,
     published |-> r.published, primary_id |-> PrimaryIdFromRow(r)]

SaveAllRows(recs) == [i \in 1..Len(recs) |-> Row(recs[i])]

\* _pid of _write_diff_csv: row.get("primary_id") or self._primary_id_from_row(row)
Pid(row) == IF TruthyStr(row.primary_id) THEN row.primary_id ELSE PrimaryIdFromRow(row)

\* prior ids collected from the DOI alone, without the arXiv fallback
PrevIdsDoiOnly(prev_rows) == {prev_rows[i].doi : i \in 1..Len(prev_rows)} \ {NoStr, <<>>}

PrevIds(prev_rows) == {Pid(prev_rows[i]) : i \in 1..Len(prev_rows)} \ {NoStr, <<>>}

\* _write_diff_csv: the rows written to diff.csv (the header is not modelled)
WriteDiffCsv(cur_rows, prev_rows) ==
    LET new_rows == SelectSeq(cur_rows, LAMBDA r : Pid(r) \notin PrevIds(prev_rows))
    IN  [i \in 1..Len(new_rows) |->
            IF TruthyStr(new_rows[i].primary_id) THEN new_rows[i]
            ELSE [new_rows[i] EXCEPT !.primary_id = PrimaryIdFromRow(new_rows[i])]]

\* ------------------------------------------------------------------ state
VARIABLES
    clock,            \* wall-clock time in seconds (datetime.now, st_mtime)
    fs,               \* run_root: timestamp -> the directory run_<timestamp>
    runs,             \* CoordinatorAgent.run invocations started so far
    pc,               \* position of the current invocation in run
    query, from_year, to_year, enable_sources,   \* the invocation's arguments
    run_dir,          \* the timestamp naming the invocation's run directory
    tasks,            \* sources planned by DiscoveryAgent.plan
    raw_blobs,        \* source -> the records its fetched chunks parse to
    extracted,        \* the list extractor.process returned (history)
    records,          \* the local `records` of run
    final,            \* the local `final` of run
    artefacts,        \* keys of the artefacts dict
    prev_dir,         \* what _find_previous_run_dir returned
    counts            \* the local `counts` of run

runVars == <<clock, fs, runs, pc, query, from_year, to_year, enable_sources, run_dir,
             tasks, raw_blobs, extracted, records, final, artefacts, prev_dir, counts>>

VARIABLES
    ftasks,           \* FetchAgent.execute: tasks.items(), in order
    fidx,             \* index in ftasks of the source being fetched
    blobs,            \* the result mapping of execute
    fpc,              \* position inside execute / _paginate_* / http_get
    out,              \* the local `out` of the running _paginate_*
    fetched,          \* its cumulative item count
    iter,             \* iterations of its range(max_pages) loop started
    param,            \* params["cursor"] / params["page"] / params["start"]
    attempt,          \* http_get: the loop variable, GETs issued by this call
    last_exc,         \* http_get: whether last_exc is set
    resp,             \* the (status, text) http_get returned
    exc,              \* the exception propagating out of execute, if any
    retryable_seen,   \* attempts of this http_get call answered 429/5xx (history)
    hist              \* what http_get returned for each page request of this source (history)

fetchVars == <<ftasks, fidx, blobs, fpc, out, fetched, iter, param, attempt, last_exc,
               resp, exc, retryable_seen, hist>>

VARIABLES
    call,             \* the function a caller applies on its own: its name
    args,             \* the arguments of that call
    ret,              \* what the call returned or raised
    cpc               \* position of that call: "idle", "called", "returned"

callVars == <<call, args, ret, cpc>>

VARIABLES
    specs,            \* execute, list mode: how many page specs the source's list holds
    work,             \* the pool's future for each page spec, by position in the list
    taken,            \* how many results the calling thread has drawn from pool.map
    parts,            \* the per-source body list; page spec i has body i
    entry,            \* blobs[source], once ppc = "stored"
    ppc               \* position of the calling thread

poolVars == <<specs, work, taken, parts, entry, ppc>>

VARIABLES
    reqs              \* api: the run requests being served, each on its own thread

VARIABLES
    kb,               \* Bob: KB[model]["qty"], by the model's SKU
    reserved,         \* per SKU, the sum of N over the reservations Bob answered with tell
    reply             \* the message Bob handled last and the performative he answered

kbVars == <<kb, reserved, reply>>

restVars == <<poolVars, reqs, kbVars>>

vars == <<runVars, fetchVars, callVars, restVars>>

Dirs == 0..MaxClock
NoDir == -1
NoCounts == [fetched |-> -1, filtered |-> -1, deduped |-> -1]

\* manifest_ok, results_ok: whether run.json / results.json still parse
EmptyDir ==
    [exists |-> FALSE, mtime |-> 0, files |-> {}, query |-> NoStr,
     counts |-> NoCounts, results |-> <<>>, diff |-> <<>>,
     manifest_ok |-> TRUE, results_ok |-> TRUE]

NoBlobs == [s \in Sources |-> <<>>]

\* Writing a file creates the directory entry when it is new, which is what
\* moves the directory's st_mtime.
WithFile(dir, name, now) ==
    IF name \in dir.files THEN dir
    ELSE [dir EXCEPT !.files = @ \cup {name}, !.mtime = now]

RECURSIVE WithFiles(_, _, _)
WithFiles(dir, names, now) ==
    IF names = <<>> THEN dir
    ELSE WithFiles(WithFile(dir, Head(names), now), Tail(names), now)

\* Path.mkdir(parents=True, exist_ok=True)
Mkdir(dir, now) == IF dir.exists THEN dir ELSE [dir EXCEPT !.exists = TRUE, !.mtime = now]

\* _find_previous_run_dir: the directories it can return. sort(reverse=True) is
\* stable, so among equal st_mtime the winner is the one iterdir() lists first,
\* which the file system decides.
\* (variant: the directory being written is not skipped)
PrevCandidatesWithCurrent(root, q, current) ==
    {d \in Dirs : /\ root[d].exists
                  /\ "run.json" \in root[d].files
                  /\ root[d].manifest_ok
                  /\ Strip(IF TruthyStr(root[d].query) THEN root[d].query ELSE <<>>) = Strip(q)}

PrevCandidates(root, q, current) ==
    {d \in Dirs : /\ root[d].exists
                  /\ d # current
                  /\ "run.json" \in root[d].files
                  /\ root[d].manifest_ok
                  /\ Strip(IF TruthyStr(root[d].query) THEN root[d].query ELSE <<>>) = Strip(q)}

FindPreviousRunDir(root, q, current) ==
    LET c == PrevCandidates(root, q, current)
    IN  IF c = {} THEN {NoDir}
        ELSE {d \in c : \A e \in c : root[e].mtime <= root[d].mtime}

RunInit ==
    /\ clock = 0
    /\ fs = [d \in Dirs |-> EmptyDir]
    /\ runs = 0
    /\ pc = "idle"
    /\ query = NoStr
    /\ from_year = NoInt
    /\ to_year = NoInt
    /\ enable_sources = {}
    /\ run_dir = NoDir
    /\ tasks = {}
    /\ raw_blobs = NoBlobs
    /\ extracted = <<>>
    /\ records = <<>>
    /\ final = <<>>
    /\ artefacts = {}
    /\ prev_dir = NoDir
    /\ counts = NoCounts

\* ------------------------------------------------ CoordinatorAgent.run
\* Blobs a fetch can hand over: for each planned source the records its chunks
\* parse to, at most MaxRecs in all.
SrcRank(src) == CASE src = "arxiv" -> 1 [] src = "crossref" -> 2 [] OTHER -> 3

BlobChoices(pool, planned) ==
    LET P == {r \in pool : r.source \in planned}
        ordered == {q \in SeqsUpTo(P, MaxRecs) :
                       \A i \in 1..Len(q) - 1 : SrcRank(q[i].source) <= SrcRank(q[i + 1].source)}
    IN  {[s \in Sources |-> SelectSeq(q, LAMBDA r : r.source = s)] : q \in ordered}

\* Time passes between invocations and while run blocks on the network.
Tick ==
    /\ clock < MaxClock
    /\ pc \in {"idle", "fetch", "done", "failed"}
    /\ clock' = clock + 1
    /\ UNCHANGED <<fs, runs, pc, query, from_year, to_year, enable_sources, run_dir,
                   tasks, raw_blobs, extracted, records, final, artefacts, prev_dir, counts>>
    /\ UNCHANGED <<fetchVars, callVars, restVars>>

\* run, lines 238-249: the run directory is named after the current second
Enter(Q, FY, TY, EN) ==
    /\ \E q \in Q, fy \in FY, ty \in TY, en \in EN :
        /\ query' = q
        /\ from_year' = fy
        /\ to_year' = ty
        /\ enable_sources' = en
    /\ runs' = runs + 1
    /\ run_dir' = clock
    /\ fs' = [fs EXCEPT ![clock] = WithFile(Mkdir(@, clock), "aro_agent.log", clock)]
    /\ tasks' = {}
    /\ raw_blobs' = NoBlobs
    /\ extracted' = <<>>
    /\ records' = <<>>
    /\ final' = <<>>
    /\ artefacts' = {}
    /\ prev_dir' = NoDir
    /\ counts' = NoCounts
    /\ pc' = "plan"
    /\ UNCHANGED clock
    /\ UNCHANGED <<fetchVars, callVars, restVars>>

\* the first invocation of run under run_root
StartRun(Q, FY, TY, EN) ==
    /\ pc = "idle"
    /\ Enter(Q, FY, TY, EN)

\* a later invocation, after the previous one returned or raised
NextRun(Q, FY, TY, EN) ==
    /\ pc \in {"done", "failed"}
    /\ runs < MaxRuns
    /\ Enter(Q, FY, TY, EN)

\* DiscoveryAgent.plan: one task per enabled source
Plan ==
    /\ pc = "plan"
    /\ tasks' = enable_sources
    /\ pc' = "fetch"
    /\ UNCHANGED <<clock, fs, runs, query, from_year, to_year, enable_sources, run_dir,
                   raw_blobs, extracted, records, final, artefacts, prev_dir, counts>>
    /\ UNCHANGED <<fetchVars, callVars, restVars>>

\* fetcher.execute(tasks) returns the raw blobs
FetchOk(pool) ==
    /\ pc = "fetch"
    /\ \E b \in BlobChoices(pool, tasks) : raw_blobs' = b
    /\ pc' = "extract"
    /\ UNCHANGED <<clock, fs, runs, query, from_year, to_year, enable_sources, run_dir,
                   tasks, extracted, records, final, artefacts, prev_dir, counts>>
    /\ UNCHANGED <<fetchVars, callVars, restVars>>

\* fetcher.execute(tasks) raises: run has no handler, the caller gets it
FetchRaises ==
    /\ pc = "fetch"
    /\ tasks # {}
    /\ pc' = "failed"
    /\ UNCHANGED <<clock, fs, runs, query, from_year, to_year, enable_sources, run_dir,
                   tasks, raw_blobs, extracted, records, final, artefacts, prev_dir, counts>>
    /\ UNCHANGED <<fetchVars, callVars, restVars>>

\* an extractor that walks the sources in the order the plan lists them
ProcessPlanOrder(b) == b["crossref"] \o b["arxiv"] \o b["doaj"]

\* ExtractAgent.process: arXiv chunks, then Crossref, then DOAJ
Process(b) == b["arxiv"] \o b["crossref"] \o b["doaj"]

Extract ==
    /\ pc = "extract"
    /\ extracted' = Process(raw_blobs)
    /\ records' = Process(raw_blobs)
    /\ pc' = "year_filter"
    /\ UNCHANGED <<clock, fs, runs, query, from_year, to_year, enable_sources, run_dir,
                   tasks, raw_blobs, final, artefacts, prev_dir, counts>>
    /\ UNCHANGED <<fetchVars, callVars, restVars>>

\* extractor.process(raw_blobs) raises on a Crossref or DOAJ chunk of an
\* unexpected shape: run has no handler, the caller gets it
ExtractRaises ==
    /\ pc = "extract"
    /\ tasks \cap {"crossref", "doaj"} # {}
    /\ pc' = "failed"
    /\ UNCHANGED <<clock, fs, runs, query, from_year, to_year, enable_sources, run_dir,
                   tasks, raw_blobs, extracted, records, final, artefacts, prev_dir, counts>>
    /\ UNCHANGED <<fetchVars, callVars, restVars>>

\* run, line 330
YearFilterStage ==
    /\ pc = "year_filter"
    /\ records' = YearFilter(records, from_year, to_year)
    /\ pc' = "dedup"
    /\ UNCHANGED <<clock, fs, runs, query, from_year, to_year, enable_sources, run_dir,
                   tasks, raw_blobs, extracted, final, artefacts, prev_dir, counts>>
    /\ UNCHANGED <<fetchVars, callVars, restVars>>

\* run, lines 339-344
DedupStage ==
    /\ pc = "dedup"
    /\ final' = Dedup(records)
    /\ pc' = "persist"
    /\ UNCHANGED <<clock, fs, runs, query, from_year, to_year, enable_sources, run_dir,
                   tasks, raw_blobs, extracted, records, artefacts, prev_dir, counts>>
    /\ UNCHANGED <<fetchVars, callVars, restVars>>

ResultFiles == <<"results.csv", "results.json", "results.sqlite", "results.bib">>

\* (variant: save_all called before the dedup loop has run)
PersistBeforeDedup ==
    /\ pc = "dedup"
    /\ fs' = [fs EXCEPT ![run_dir] =
                 [WithFiles(@, ResultFiles, clock) EXCEPT !.results = SaveAllRows(final),
                                                          !.results_ok = TRUE]]
    /\ artefacts' = {"csv", "json", "sqlite", "bibtex"}
    /\ pc' = "diff"
    /\ UNCHANGED <<clock, runs, query, from_year, to_year, enable_sources, run_dir,
                   tasks, raw_blobs, extracted, records, final, prev_dir, counts>>
    /\ UNCHANGED <<fetchVars, callVars, restVars>>

\* StorageAgent.save_all
Persist ==
    /\ pc = "persist"
    /\ fs' = [fs EXCEPT ![run_dir] =
                 [WithFiles(@, ResultFiles, clock) EXCEPT !.results = SaveAllRows(final),
                                                          !.results_ok = TRUE]]
    /\ artefacts' = {"csv", "json", "sqlite", "bibtex"}
    /\ pc' = "diff"
    /\ UNCHANGED <<clock, runs, query, from_year, to_year, enable_sources, run_dir,
                   tasks, raw_blobs, extracted, records, final, prev_dir, counts>>
    /\ UNCHANGED <<fetchVars, callVars, restVars>>

\* _write_diff_csv, lines 99-109: json.load(f) or [], and [] when it raises
ReadRows(dir) == IF dir.results_ok THEN dir.results ELSE <<>>

\* run, lines 357-376
Diff ==
    /\ pc = "diff"
    /\ \E p \in FindPreviousRunDir(fs, query, run_dir) :
        /\ prev_dir' = p
        /\ IF p # NoDir /\ "results.json" \in fs[p].files
                        /\ "results.json" \in fs[run_dir].files
           THEN /\ fs' = [fs EXCEPT ![run_dir] =
                            [WithFile(@, "diff.csv", clock) EXCEPT
                                !.diff = WriteDiffCsv(ReadRows(fs[run_dir]), ReadRows(fs[p]))]]
                /\ artefacts' = artefacts \cup {"diff_csv"}
           ELSE UNCHANGED <<fs, artefacts>>
    /\ pc' = "manifest"
    /\ UNCHANGED <<clock, runs, query, from_year, to_year, enable_sources, run_dir,
                   tasks, raw_blobs, extracted, records, final, counts>>
    /\ UNCHANGED <<fetchVars, callVars, restVars>>

\* run, lines 378-411: counts, bdi_trace.json, run.json
Counts(recs, fy, ty, fin) ==
    [fetched |-> Len(recs), filtered |-> Len(YearFilter(recs, fy, ty)), deduped |-> Len(fin)]

Manifest ==
    /\ pc = "manifest"
    /\ counts' = Counts(records, from_year, to_year, final)
    /\ records' = YearFilter(records, from_year, to_year)
    /\ fs' = [fs EXCEPT ![run_dir] =
                 [WithFiles(@, <<"bdi_trace.json", "run.json">>, clock) EXCEPT
                     !.query = query,
                     !.counts = Counts(records, from_year, to_year, final),
                     !.manifest_ok = TRUE]]
    /\ pc' = "done"
    /\ UNCHANGED <<clock, runs, query, from_year, to_year, enable_sources, run_dir,
                   tasks, raw_blobs, extracted, final, artefacts, prev_dir>>
    /\ UNCHANGED <<fetchVars, callVars, restVars>>

\* ------------------------------------------------------- FetchAgent idle
NoResp == [status |-> 0, empty |-> TRUE, n |-> 0, next |-> -1]

FetchIdle ==
    /\ ftasks = <<>>
    /\ fidx = 0
    /\ blobs = [s \in Sources |-> <<>>]
    /\ fpc = "idle"
    /\ out = <<>>
    /\ fetched = 0
    /\ iter = 0
    /\ param = 0
    /\ attempt = 0
    /\ last_exc = FALSE
    /\ resp = NoResp
    /\ exc = "none"
    /\ retryable_seen = 0
    /\ hist = <<>>

\* ------------------------------------------- specification: the pipeline
\* no function is being applied on its own
CallIdle ==
    /\ call = "none"
    /\ args = <<>>
    /\ ret = <<>>
    /\ cpc = "idle"

\* no list of page specs is being fetched
PoolIdle ==
    /\ specs = 0
    /\ work = <<>>
    /\ taken = 0
    /\ parts = <<>>
    /\ entry = <<>>
    /\ ppc = "idle"

MaxRequests == 2     \* run requests the api serves in one behaviour

Request(handler, rpc, dir, status, run_id) ==
    [handler |-> handler, rpc |-> rpc, dir |-> dir, status |-> status, run_id |-> run_id]

\* no request has come in
NoRequests == [r \in 1..MaxRequests |-> Request("none", "idle", -1, -1, -1)]

\* Bob's KB as the module defines it: two models, one SKU each
KB0 == [s \in {"SKU-50TV-ABC", "SKU-50TV-XYZ"} |->
           IF s = "SKU-50TV-ABC" THEN 42 ELSE 17]

Reply(msg, sku, n, perf) == [msg |-> msg, sku |-> sku, n |-> n, perf |-> perf]

\* no message has reached Bob
KbInit ==
    /\ kb = KB0
    /\ reserved = [s \in DOMAIN KB0 |-> 0]
    /\ reply = Reply("none", "", 0, "none")

RestIdle == PoolIdle /\ reqs = NoRequests /\ KbInit

Init == RunInit /\ FetchIdle /\ CallIdle /\ RestIdle

Next ==
    \/ Tick
    \/ StartRun(Queries, FromYears, ToYears, SUBSET Sources)
    \/ Plan
    \/ FetchOk(RecordPool)
    \/ FetchRaises
    \/ Extract
    \/ ExtractRaises
    \/ YearFilterStage
    \/ DedupStage
    \/ Persist
    \/ Diff
    \/ Manifest

Spec == Init /\ [][Next]_vars

\* ------------------------------------------------------------- http_get
\* Status codes the modelled servers answer with
ServerStatuses == {200, 204, 404, 429, 503}

NoCursor == -1      \* "next-cursor" absent or null
StarCursor == 0     \* the sentinel "*"

\* A response as http_get returns it: the status and what the caller reads of
\* the text (whether it is empty, how many items it lists, its next-cursor).
Resp(status, empty, n, next) == [status |-> status, empty |-> empty, n |-> n, next |-> next]

\* What a server can answer to the page request number k of a source. Only a
\* 200 carries a body the fetcher reads; a Crossref body names a next cursor.
Answers(src, k) ==
    {Resp(st, TRUE, 0, NoCursor) : st \in ServerStatuses \ RETRYABLE_STATUS}
    \cup {Resp(200, FALSE, n, c) :
              n \in 0..MaxItems,
              c \in IF src = "crossref" THEN {NoCursor, k} ELSE {NoCursor}}

\* The raw body kept for a page: the request that fetched it and its content
Body(k, r) == [page |-> k, n |-> r.n, next |-> r.next]

Task == ftasks[fidx]

\* http_get is entered: attempt = 0, last_exc = None, nothing returned yet
CallHttpGet ==
    /\ resp' = NoResp
    /\ attempt' = 0
    /\ last_exc' = FALSE
    /\ retryable_seen' = 0
    /\ fpc' = "http"

\* session.get raised requests.RequestException: remember it, sleep, retry
GetTransportError ==
    /\ fpc = "http"
    /\ attempt < Retries
    /\ attempt' = attempt + 1
    /\ last_exc' = TRUE
    /\ UNCHANGED <<ftasks, fidx, blobs, fpc, out, fetched, iter, param, resp, exc,
                   retryable_seen, hist>>
    /\ UNCHANGED <<runVars, callVars, restVars>>

\* a 429/5xx answer: sleep, continue with the next attempt
GetRetryable ==
    /\ fpc = "http"
    /\ attempt < Retries
    /\ ServerStatuses \cap RETRYABLE_STATUS # {}
    /\ attempt' = attempt + 1
    /\ retryable_seen' = retryable_seen + 1
    /\ UNCHANGED <<ftasks, fidx, blobs, fpc, out, fetched, iter, param, last_exc, resp,
                   exc, hist>>
    /\ UNCHANGED <<runVars, callVars, restVars>>

\* (variant: a non-retryable answer is kept and the loop goes on)
GetReturnsRetrying ==
    /\ fpc = "http"
    /\ attempt < Retries
    /\ \E r \in Answers(Task.source, iter) :
        /\ r.status < 400 \/ r.status \notin RETRYABLE_STATUS
        /\ resp' = r
        /\ fpc' = IF r.status < 400 THEN "page" ELSE "http"
    /\ attempt' = attempt + 1
    /\ UNCHANGED <<ftasks, fidx, blobs, out, fetched, iter, param, last_exc, exc,
                   retryable_seen, hist>>
    /\ UNCHANGED <<runVars, callVars, restVars>>

\* a status < 400, or a non-retryable status: returned to the caller as it is
GetReturns ==
    /\ fpc = "http"
    /\ attempt < Retries
    /\ \E r \in Answers(Task.source, iter) :
        /\ r.status < 400 \/ r.status \notin RETRYABLE_STATUS
        /\ resp' = r
    /\ attempt' = attempt + 1
    /\ fpc' = "page"
    /\ UNCHANGED <<ftasks, fidx, blobs, out, fetched, iter, param, last_exc, exc,
                   retryable_seen, hist>>
    /\ UNCHANGED <<runVars, callVars, restVars>>

\* The exception http_get ends with when its loop runs out
Exhausted(exc_seen) == IF exc_seen THEN "RequestException" ELSE "RuntimeError"

\* range(retries) is used up: raise last_exc, or RuntimeError. Neither
\* _paginate_* nor execute has a handler, so the exception leaves execute.
HttpExhausted ==
    /\ fpc = "http"
    /\ attempt = Retries
    /\ exc' = Exhausted(last_exc)
    /\ fpc' = "raised"
    /\ UNCHANGED <<ftasks, fidx, blobs, out, fetched, iter, param, attempt, last_exc,
                   resp, retryable_seen, hist>>
    /\ UNCHANGED <<runVars, callVars, restVars>>

\* -------------------------------------------------------------- FetchAgent
\* the first value of the request parameter a strategy advances
FirstParam(strategy) == IF strategy = "crossref" THEN StarCursor ELSE IF strategy = "doaj" THEN 1 ELSE 0

PAGE_SIZE == 100

\* execute: the next (source, spec) of tasks.items(); its first request
ExecuteNext ==
    /\ fpc = "next"
    /\ fidx < Len(ftasks)
    /\ fidx' = fidx + 1
    /\ out' = <<>>
    /\ fetched' = 0
    /\ iter' = 1
    /\ param' = FirstParam(ftasks[fidx + 1].strategy)
    /\ hist' = <<>>
    /\ CallHttpGet
    /\ UNCHANGED <<ftasks, blobs, exc>>
    /\ UNCHANGED <<runVars, callVars, restVars>>

\* execute: tasks.items() is used up, return blobs
ExecuteReturns ==
    /\ fpc = "next"
    /\ fidx = Len(ftasks)
    /\ fpc' = "returned"
    /\ UNCHANGED <<ftasks, fidx, blobs, out, fetched, iter, param, attempt, last_exc,
                   resp, exc, retryable_seen, hist>>
    /\ UNCHANGED <<runVars, callVars, restVars>>

\* `if status != 200 or not txt: break`
NoPage(r) == r.status # 200 \/ r.empty

\* a cursor loop that forgets the `not next_cursor` test
CrossrefStopIgnoresCursor(n, total, limit, next) == n = 0 \/ total >= limit

\* the break conditions after a page was appended
CrossrefStop(n, total, limit, next) == n = 0 \/ total >= limit \/ next = NoCursor

\* a count test that lets the loop go on when the cap has just been reached
CountStopPastCap(n, total, limit) == n = 0 \/ total > limit

CountStop(n, total, limit) == n = 0 \/ total >= limit

\* The rest of a _paginate_* loop body once http_get has returned: `stop` says
\* whether the loop breaks after the page was appended, `nextParam` is the
\* parameter of the following request. A break, or the end of
\* range(max_pages), returns out, which execute stores under the source.
PageStep(stop, nextParam) ==
    /\ fpc = "page"
    /\ hist' = Append(hist, resp)
    /\ IF NoPage(resp)
       THEN /\ blobs' = [blobs EXCEPT ![Task.source] = out]
            /\ fpc' = "next"
            /\ UNCHANGED <<out, fetched, iter, param, attempt, last_exc, retryable_seen, resp>>
       ELSE /\ out' = Append(out, Body(iter, resp))
            /\ fetched' = fetched + resp.n
            /\ IF stop \/ iter = Task.max_pages
               THEN /\ blobs' = [blobs EXCEPT ![Task.source] = Append(out, Body(iter, resp))]
                    /\ fpc' = "next"
                    /\ UNCHANGED <<iter, param, attempt, last_exc, retryable_seen, resp>>
               ELSE /\ param' = nextParam
                    /\ iter' = iter + 1
                    /\ CallHttpGet
                    /\ UNCHANGED blobs
    /\ UNCHANGED <<ftasks, fidx, exc>>
    /\ UNCHANGED <<runVars, callVars, restVars>>

\* a cursor loop that asks for the same cursor again
PageCrossrefKeepsCursor ==
    /\ fpc = "page"
    /\ Task.strategy = "crossref"
    /\ PageStep(CrossrefStop(resp.n, fetched + resp.n, Task.limit, resp.next), param)

PageCrossref ==
    /\ fpc = "page"
    /\ Task.strategy = "crossref"
    /\ PageStep(CrossrefStop(resp.n, fetched + resp.n, Task.limit, resp.next), resp.next)

\* a page loop that steps over every other page
PageDoajSkips ==
    /\ fpc = "page"
    /\ Task.strategy = "doaj"
    /\ PageStep(CountStop(resp.n, fetched + resp.n, Task.limit), param + 2)

PageDoaj ==
    /\ fpc = "page"
    /\ Task.strategy = "doaj"
    /\ PageStep(CountStop(resp.n, fetched + resp.n, Task.limit), param + 1)

PageArxiv ==
    /\ fpc = "page"
    /\ Task.strategy = "arxiv"
    /\ PageStep(CountStop(resp.n, fetched + resp.n, Task.limit), param + PAGE_SIZE)

\* no paginate in the spec: blobs[source] = txt if status == 200 else ""
SingleShot ==
    /\ fpc = "page"
    /\ Task.strategy = "single"
    /\ hist' = Append(hist, resp)
    /\ blobs' = [blobs EXCEPT ![Task.source] =
                    IF resp.status = 200 /\ ~resp.empty THEN <<Body(iter, resp)>> ELSE <<>>]
    /\ fpc' = "next"
    /\ UNCHANGED <<ftasks, fidx, out, fetched, iter, param, attempt, last_exc, resp, exc,
                   retryable_seen>>
    /\ UNCHANGED <<runVars, callVars, restVars>>

\* ------------------------------------ specification: FetchAgent.execute
\* tasks as DiscoveryAgent.plan lists them (crossref, arxiv, doaj, each with
\* its own strategy), or the same sources without a paginate entry
PlanOrder == <<"crossref", "arxiv", "doaj">>

TaskLists ==
    {[i \in 1..Len(q) |->
         [source |-> q[i], strategy |-> IF paginated THEN q[i] ELSE "single",
          limit |-> limit, max_pages |-> MaxPages]] :
        q \in {SelectSeq(PlanOrder, LAMBDA x : x \in en) : en \in SUBSET Sources},
        paginated \in BOOLEAN,
        limit \in 1..MaxLimit}

FetchInit ==
    /\ ftasks \in TaskLists
    /\ fidx = 0
    /\ blobs = [s \in Sources |-> <<>>]
    /\ fpc = "next"
    /\ out = <<>>
    /\ fetched = 0
    /\ iter = 0
    /\ param = 0
    /\ attempt = 0
    /\ last_exc = FALSE
    /\ resp = NoResp
    /\ exc = "none"
    /\ retryable_seen = 0
    /\ hist = <<>>

NextFetch ==
    \/ ExecuteNext
    \/ ExecuteReturns
    \/ GetTransportError
    \/ GetRetryable
    \/ GetReturns
    \/ HttpExhausted
    \/ PageCrossref
    \/ PageDoaj
    \/ PageArxiv
    \/ SingleShot

InitFetch == RunInit /\ FetchInit /\ CallIdle /\ RestIdle

SpecFetch == InitFetch /\ [][NextFetch]_vars

\* --------------------------- specification: repeated runs under one run_root
NextRuns ==
    \/ Tick
    \/ StartRun(Queries, {NoInt}, {NoInt, 2021}, {Sources, {"crossref"}})
    \/ NextRun(Queries, {NoInt}, {NoInt, 2021}, {Sources, {"crossref"}})
    \/ Plan
    \/ FetchOk(RecordPool)
    \/ FetchRaises
    \/ Extract
    \/ ExtractRaises
    \/ YearFilterStage
    \/ DedupStage
    \/ Persist
    \/ Diff
    \/ Manifest

SpecRuns == Init /\ [][NextRuns]_vars

\* ------------------------------------- runs over damaged earlier run folders
\* Between two invocations a file of a finished run is damaged (truncated,
\* overwritten): run.json or results.json no longer parses. Rewriting a file's
\* content leaves the directory's st_mtime alone.
Damage ==
    /\ pc \in {"done", "failed"}
    /\ \E d \in Dirs :
        /\ "run.json" \in fs[d].files
        /\ \/ fs[d].manifest_ok /\ fs' = [fs EXCEPT ![d].manifest_ok = FALSE]
           \/ fs[d].results_ok /\ fs' = [fs EXCEPT ![d].results_ok = FALSE]
    /\ UNCHANGED <<clock, runs, pc, query, from_year, to_year, enable_sources, run_dir,
                   tasks, raw_blobs, extracted, records, final, artefacts, prev_dir, counts>>
    /\ UNCHANGED <<fetchVars, callVars, restVars>>

NextDamage ==
    \/ Tick
    \/ StartRun({<<"q">>}, {NoInt}, {NoInt}, {{"crossref"}})
    \/ NextRun({<<"q">>}, {NoInt}, {NoInt}, {{"crossref"}})
    \/ Damage
    \/ Plan
    \/ FetchOk(RecordPool)
    \/ FetchRaises
    \/ Extract
    \/ ExtractRaises
    \/ YearFilterStage
    \/ DedupStage
    \/ Persist
    \/ Diff
    \/ Manifest

SpecDamage == Init /\ [][NextDamage]_vars

\* ------------------------------------------------------------------ claims
HasYear(r) ==
    /\ r.published # NoStr
    /\ Len(r.published) >= 4
    /\ \A i \in 1..4 : r.published[i] \in Digits

YearOf(r) == ParseInt(SubSeq(r.published, 1, 4))

Keyless(r) == r.doi \in {NoStr, <<>>} /\ r.arxiv_id \in {NoStr, <<>>}

AfterDedup == pc \in {"persist", "diff", "manifest"}

\* C1: the manifest counts of a completed run are fetched = the number of
\* records extraction returned (before the year filter), filtered = the number
\* that passed the year filter, deduped = the number dedup kept.
C1_ManifestCounts ==
    pc = "done" =>
        /\ counts.fetched = Len(extracted)
        /\ counts.filtered = Len(SelectSeq(extracted,
                                  LAMBDA r : YearOk(r.published, from_year, to_year)))
        /\ counts.deduped = Len(final)
        /\ fs[run_dir].counts = counts

\* C5: dedup is first-seen-wins: for every non-null key among the records that
\* enter dedup, the output holds exactly one record with that key, and it is
\* field for field the first input record with that key.
C5_FirstSeenWins ==
    AfterDedup =>
        \A i \in 1..Len(records) :
            LET k == DedupKey(records[i])
                first == CHOOSE j \in 1..i :
                             /\ DedupKey(records[j]) = k
                             /\ \A h \in 1..(j - 1) : DedupKey(records[h]) # k
            IN  k \notin {NoStr, <<>>} =>
                    /\ Cardinality({j \in 1..Len(final) : DedupKey(final[j]) = k}) = 1
                    /\ \E j \in 1..Len(final) : final[j] = records[first]

C5_Witness ==
    /\ pc = "persist"
    /\ \E i, j \in 1..Len(records) :
        /\ i < j
        /\ DedupKey(records[i]) = DedupKey(records[j])
        /\ DedupKey(records[i]) # NoStr
        /\ records[i].title # records[j].title

\* C6: a record with neither a DOI nor an arXiv ID (null or empty) is never in
\* the deduplicated output nor in any persisted export, and dropping it raises
\* no error: a run fails only before any record exists.
C6_UnkeyedDropped ==
    /\ \A i \in 1..Len(final) : ~Keyless(final[i])
    /\ \A d \in Dirs :
        /\ \A i \in 1..Len(fs[d].results) : ~Keyless(fs[d].results[i])
        /\ \A i \in 1..Len(fs[d].diff) : ~Keyless(fs[d].diff[i])
    /\ pc = "failed" => extracted = <<>>

C6_Witness ==
    /\ pc = "done"
    /\ \E i \in 1..Len(records) : Keyless(records[i])
    /\ final # <<>>

\* C7: the year filter is inclusive on both bounds: a record with a leading
\* 4-digit year y passes iff from_year <= y <= to_year, a missing bound being
\* open on that side.
C7_YearInclusive ==
    pc \in {"dedup", "persist", "diff", "manifest"} =>
        \A i \in 1..Len(extracted) :
            HasYear(extracted[i]) =>
                ((\E j \in 1..Len(records) : records[j] = extracted[i])
                 <=> /\ (from_year # NoInt => from_year <= YearOf(extracted[i]))
                     /\ (to_year # NoInt => YearOf(extracted[i]) <= to_year))

\* C8: whenever from_year or to_year is given (is not None, 0 included), a
\* record whose date is missing or has no 4-digit leading year is dropped by
\* the year filter; when neither is given every record passes.
C8_UndatedDropped ==
    pc \in {"dedup", "persist", "diff", "manifest"} =>
        IF from_year = NoInt /\ to_year = NoInt
        THEN records = extracted
        ELSE \A j \in 1..Len(records) : HasYear(records[j])

\* C9: a completed run writes a diff exactly when a prior run with the same
\* (trimmed) query exists; the diff is taken against the most recently modified
\* such run and holds exactly the current run's persisted records whose
\* PrimaryID is not a PrimaryID persisted by that prior run.
SameQueryPriors ==
    {d \in Dirs \ {run_dir} : "run.json" \in fs[d].files /\ Strip(fs[d].query) = Strip(query)}

PersistedIds(d) == {fs[d].results[i].primary_id : i \in 1..Len(fs[d].results)} \ {NoStr}

C9_DiffCorrect ==
    pc = "done" =>
        IF SameQueryPriors = {}
        THEN "diff_csv" \notin artefacts /\ prev_dir = NoDir
        ELSE /\ prev_dir \in SameQueryPriors
             /\ \A d \in SameQueryPriors : fs[d].mtime <= fs[prev_dir].mtime
             /\ "diff_csv" \in artefacts
             /\ fs[run_dir].diff =
                    SelectSeq(fs[run_dir].results,
                              LAMBDA r : r.primary_id \notin PersistedIds(prev_dir))

C9_Witness ==
    /\ pc = "done"
    /\ "diff_csv" \in artefacts
    /\ fs[run_dir].diff # <<>>
    /\ Len(fs[run_dir].diff) < Len(fs[run_dir].results)

\* An attempt of the running http_get call was answered by the server
GotResponse == retryable_seen > 0 \/ resp # NoResp

Paginated == fidx > 0 /\ Task.strategy # "single"

\* C2: when the server answers 503 to every attempt of a page request, http_get
\* makes exactly `retries` GETs and the pagination loop then stops without an
\* exception leaving _paginate_* or execute.
C2_Exhausted503Stops ==
    (Paginated /\ retryable_seen = Retries) => (attempt = Retries /\ fpc # "raised")

\* C3: execute lets an exception out only if every attempt of the request
\* failed at the transport level; with at least one HTTP response among the
\* attempts it returns.
C3_RaisesOnlyOnTransport ==
    fpc = "raised" => (~GotResponse /\ last_exc /\ attempt = Retries)

\* C4: pages 1..k-1 of a paginated source were fetched and page k is answered
\* with a retryable status until the retries run out: execute still returns the
\* bodies of pages 1..k-1 for that source and the bodies of the other sources.
C4_PartialBodiesReturned ==
    (Paginated /\ out # <<>> /\ retryable_seen = Retries /\ fpc # "http") =>
        /\ fpc \in {"next", "returned"}
        /\ blobs[Task.source] = out

\* C10: a Crossref server that returns non-empty pages and a null next-cursor
\* on page 3, with the cap and max_pages not reached, gets exactly 3 page
\* requests, and the fetcher returns exactly those 3 bodies in fetch order; the
\* loop does not end earlier while pages are non-empty and carry a cursor.
GoodPage(r) == r.status = 200 /\ ~r.empty /\ r.n > 0

Fetched(h, k) == SeqSum([i \in 1..k |-> h[i].n])

C10_CursorEnds ==
    (fidx > 0 /\ Task.strategy = "crossref") =>
        /\ ( /\ Len(hist) >= 3
             /\ \A i \in 1..3 : GoodPage(hist[i])
             /\ hist[1].next # NoCursor /\ hist[2].next # NoCursor
             /\ hist[3].next = NoCursor
             /\ Fetched(hist, 3) < Task.limit
             /\ Task.max_pages > 3 )
           => /\ Len(hist) = 3
              /\ iter = 3
              /\ fpc \in {"next", "returned"}
              /\ blobs["crossref"] = [i \in 1..3 |-> Body(i, hist[i])]
        /\ ( /\ fpc \in {"next", "returned"}
             /\ \A i \in 1..Len(hist) :
                    GoodPage(hist[i]) /\ hist[i].next # NoCursor /\ Fetched(hist, i) < Task.limit )
           => Len(hist) = Task.max_pages

C10_Witness ==
    /\ fidx > 0
    /\ Task.strategy = "crossref"
    /\ fpc = "returned"
    /\ Len(hist) = 3
    /\ \A i \in 1..3 : GoodPage(hist[i])
    /\ hist[3].next = NoCursor
    /\ Fetched(hist, 3) < Task.limit
    /\ Len(blobs["crossref"]) = 3

\* ------------------------------------------- functions applied on their own
\* A DOI string is a sequence of tokens: "H" is the text https://doi.org/, "U"
\* the same text in upper case, "D" the text http://dx.doi.org/; every other
\* token is one character.
MaxDoiLen == 3
DoiPrefixes == {"H", "U", "D"}
DoiChars == DoiPrefixes \cup {" ", "a", "A"}
DoiInputs == {NoStr} \cup SeqsUpTo(DoiChars, MaxDoiLen)

\* re.sub(r"^https?://(dx\.)?doi\.org/", "", doi, flags=re.I)
SubDoiPrefix(s) == IF s # <<>> /\ Head(s) \in DoiPrefixes THEN Tail(s) ELSE s

\* normalise_doi
NormaliseDoi(doi) ==
    IF ~TruthyStr(doi) THEN NoStr ELSE Lower(SubDoiPrefix(Strip(doi)))

Returns(value) ==
    /\ cpc = "called"
    /\ ret' = value
    /\ cpc' = "returned"
    /\ UNCHANGED <<call, args>>
    /\ UNCHANGED <<runVars, fetchVars, restVars>>

CallNormaliseDoi ==
    /\ call = "normalise_doi"
    /\ Returns(NormaliseDoi(args))

\* _primary_id_from_row: rows as dicts with the keys it reads
ArxivInputs == {NoStr, <<>>, <<" ">>, <<"x">>, <<"A">>}
RowInputs == [doi : DoiInputs, arxiv_id : ArxivInputs]

CallPrimaryIdFromRow ==
    /\ call = "_primary_id_from_row"
    /\ Returns(PrimaryIdFromRow(args))

\* DiscoveryAgent.plan: enable_sources is a dict, any keys, bool values
SourceKeys == Sources \cup {"scholar"}
EnableDicts == UNION {[K -> BOOLEAN] : K \in SUBSET SourceKeys}
PlanLimits == {1, 50, 100, 101, 1000}

\* dict.get(key, default)
Get(d, key, default) == IF key \in DOMAIN d THEN d[key] ELSE default

\* the "paginate" entry of a task ("rows" for Crossref, "page_size" otherwise)
Policy(src, per_source_limit) ==
    [strategy |-> src, limit |-> per_source_limit, page_size |-> PAGE_SIZE, max_pages |-> 50]

\* enable_sources.get(src, True)
Planned(enable, src) == Get(enable, src, TRUE)

DiscoveryPlan(per_source_limit, enable) ==
    [src \in {k \in Sources : Planned(enable, k)} |-> Policy(src, per_source_limit)]

CallPlan ==
    /\ call = "plan"
    /\ Returns(DiscoveryPlan(args.per_source_limit, args.enable_sources))

\* ExtractAgent.process on raw chunks. A chunk is the text of one response:
\*   "empty"      nothing or white space
\*   "malformed"  not well-formed XML / JSON
\*   "not_object" well-formed, the top level (or "message") is not an object:
\*                [], null, a number, a string
\*   "bad_items"  well-formed, an element of items/results is not an object, or
\*                a field has another type than expected
\*   "ok"         a page of the provider, parsing to the records recs
MaxChunks == 2
ChunkKinds == {"empty", "malformed", "not_object", "bad_items", "ok"}
Chunk(kind, recs) == [kind |-> kind, recs |-> recs]
Chunks(src) ==
    {Chunk(k, <<>>) : k \in ChunkKinds \ {"ok"}}
        \cup {Chunk("ok", <<r>>) : r \in {x \in RecordPool : x.source = src}}

RawBlobs ==
    LET tagged == UNION {{[source |-> src, chunk |-> c] : c \in Chunks(src)} : src \in Sources}
        ordered == {q \in SeqsUpTo(tagged, MaxChunks) :
                       \A i \in 1..Len(q) - 1 : SrcRank(q[i].source) <= SrcRank(q[i + 1].source)}
        chunksOf(q, src) == LET mine == SelectSeq(q, LAMBDA t : t.source = src)
                            IN  [i \in 1..Len(mine) |-> mine[i].chunk]
    IN  {[src \in Sources |-> chunksOf(q, src)] : q \in ordered}

\* what a parser or process gives back: a list, or an exception
Raised == [raised |-> TRUE, records |-> <<>>]
Ok(recs) == [raised |-> FALSE, records |-> recs]

\* _from_arxiv: empty text and ET.ParseError give []; a document without
\* atom:entry children gives []
FromArxiv(c) == IF c.kind = "ok" THEN Ok(c.recs) ELSE Ok(<<>>)

\* _from_crossref, _from_doaj: empty text and json.JSONDecodeError give [];
\* data.get / it.get / doi.strip on a value of another type raises AttributeError
FromJson(c) ==
    CASE c.kind \in {"empty", "malformed"} -> Ok(<<>>)
      [] c.kind \in {"not_object", "bad_items"} -> Raised
      [] OTHER -> Ok(c.recs)

FromChunk(src, c) == IF src = "arxiv" THEN FromArxiv(c) ELSE FromJson(c)

\* out.extend(parser(chunk)) for each chunk of a source
RECURSIVE ExtendAll(_, _, _)
ExtendAll(src, chunks, acc) ==
    IF acc.raised \/ chunks = <<>> THEN acc
    ELSE LET r == FromChunk(src, Head(chunks))
         IN  IF r.raised THEN Raised
             ELSE ExtendAll(src, Tail(chunks), Ok(acc.records \o r.records))

\* process: arXiv, then Crossref, then DOAJ
ProcessRaw(raw) ==
    ExtendAll("doaj", raw["doaj"],
        ExtendAll("crossref", raw["crossref"],
            ExtendAll("arxiv", raw["arxiv"], Ok(<<>>))))

CallProcess ==
    /\ call = "process"
    /\ Returns(ProcessRaw(args))

\* _find_previous_run_dir over the run folders a run_root can hold: a folder
\* with the log only (a run that failed or is still fetching), with a run.json
\* that does not parse, or with the manifest of a finished run
RunFolders ==
    {[EmptyDir EXCEPT !.exists = TRUE, !.mtime = t, !.files = {"aro_agent.log"}] :
        t \in 0..MaxClock}
    \cup {[EmptyDir EXCEPT !.exists = TRUE, !.mtime = t, !.query = <<"q">>,
                           !.manifest_ok = FALSE,
                           !.files = {"aro_agent.log", "results.json", "run.json"}] :
             t \in 0..MaxClock}
    \cup {[EmptyDir EXCEPT !.exists = TRUE, !.mtime = t, !.query = q,
                           !.files = {"aro_agent.log", "results.json", "run.json"}] :
             t \in 0..MaxClock, q \in Queries}

RunRoots == [Dirs -> {EmptyDir} \cup RunFolders]

LookupInputs ==
    {a \in [root : RunRoots, query : Queries, current_run_dir : Dirs] :
        a.root[a.current_run_dir].exists}

CallFindPreviousRunDir ==
    /\ call = "_find_previous_run_dir"
    /\ \E d \in FindPreviousRunDir(args.root, args.query, args.current_run_dir) : Returns(d)

CallInit ==
    /\ \/ call = "normalise_doi" /\ args \in DoiInputs
       \/ call = "_primary_id_from_row" /\ args \in RowInputs
       \/ call = "process" /\ args \in RawBlobs
       \/ call = "_find_previous_run_dir" /\ args \in LookupInputs
       \/ call = "plan" /\ args \in [per_source_limit : PlanLimits, enable_sources : EnableDicts]
    /\ ret = <<>>
    /\ cpc = "called"

InitCalls == RunInit /\ FetchIdle /\ CallInit /\ RestIdle

NextCalls ==
    \/ CallNormaliseDoi
    \/ CallPrimaryIdFromRow
    \/ CallPlan
    \/ CallProcess
    \/ CallFindPreviousRunDir

SpecCalls == InitCalls /\ [][NextCalls]_vars

Returned(f) == call = f /\ cpc = "returned"

\* C11: normalise_doi is idempotent: applying it to its own result gives that
\* result again, for every string and for None.
C11_NormaliseDoiIdempotent ==
    Returned("normalise_doi") => NormaliseDoi(ret) = ret

\* C12: the PrimaryID of a row is its DOI, trimmed and lowercased and without a
\* leading https://doi.org/, when that leaves any text; otherwise "arxiv:" and the
\* lowercased arXiv ID when it has one; otherwise None. A DOI always wins.
Text(v) == Lower(Strip(IF TruthyStr(v) THEN v ELSE <<>>))

C12_PrimaryId ==
    Returned("_primary_id_from_row") =>
        LET text == Text(args.doi)
            doi == IF StartsWith(text, "H") THEN Tail(text) ELSE text
            arxiv == Text(args.arxiv_id)
        IN  ret = IF doi # <<>> THEN doi
                  ELSE IF arxiv # <<>> THEN <<"arxiv:">> \o arxiv
                  ELSE NoStr

\* C13: a run passes through PLAN, FETCH, EXTRACT, YEAR_FILTER, DEDUP, PERSIST,
\* DIFF, MANIFEST in this order, none skipped and none repeated (a run can only
\* leave the sequence by raising before PERSIST); the result files hold the dedup
\* of all the filtered records, nothing changes the record list after
\* YEAR_FILTER, and run.json exists only once PERSIST and DIFF are over.
StageOrder ==
    <<"plan", "fetch", "extract", "year_filter", "dedup", "persist", "diff", "manifest", "done">>

StageStep ==
    \/ pc' = pc
    \/ pc = "idle" /\ pc' = "plan"
    \/ \E i \in 1..Len(StageOrder) - 1 : pc = StageOrder[i] /\ pc' = StageOrder[i + 1]
    \/ pc \in {"plan", "fetch", "extract", "year_filter", "dedup"} /\ pc' = "failed"

StageEffects ==
    /\ records' # records => pc \in {"extract", "year_filter"}
    /\ final' # final => pc = "dedup"
    /\ fs'[run_dir].results # fs[run_dir].results => pc = "persist"

StageFiles ==
    /\ "results.json" \in fs[run_dir].files =>
          /\ pc \in {"diff", "manifest", "done"}
          /\ fs[run_dir].results = SaveAllRows(Dedup(YearFilter(extracted, from_year, to_year)))
    /\ "run.json" \in fs[run_dir].files =>
          /\ pc = "done"
          /\ "results.json" \in fs[run_dir].files
          /\ ("diff.csv" \in fs[run_dir].files <=> "diff_csv" \in artefacts)

RunArtifactFiles ==
    {"results.csv", "results.json", "results.sqlite", "results.bib", "diff.csv", "run.json"}

C14_FailedRunLeavesNoArtifact ==
    pc = "failed" =>
        /\ fs[run_dir].files \cap RunArtifactFiles = {}
        /\ \A q \in Queries : run_dir \notin PrevCandidates(fs, q, NoDir)

\* C16: every policy plan produces has a page size of
\* min(100, per_source_limit).
C16_PageSizeIsMin ==
    Returned("plan") =>
        \A src \in DOMAIN ret :
            ret[src].page_size =
                IF args.per_source_limit < 100 THEN args.per_source_limit ELSE 100

\* C17: plan returns a task for exactly the known sources whose key is in
\* enable_sources with a true flag; unknown keys give no task.
C17_PlansExactlyEnabled ==
    Returned("plan") =>
        DOMAIN ret = {src \in Sources : src \in DOMAIN args.enable_sources
                                        /\ args.enable_sources[src]}

\* C18: process never raises: a chunk that is empty, malformed or of an
\* unexpected shape counts for no record, and process returns the records of the
\* other chunks, in source order.
RECURSIVE GoodRecords(_)
GoodRecords(chunks) ==
    IF chunks = <<>> THEN <<>>
    ELSE (IF Head(chunks).kind = "ok" THEN Head(chunks).recs ELSE <<>>)
             \o GoodRecords(Tail(chunks))

C18_ExtractionNeverRaises ==
    Returned("process") =>
        /\ ~ret.raised
        /\ ret.records = GoodRecords(args["arxiv"] \o args["crossref"] \o args["doaj"])

\* C15: when every earlier run of the same query is unreadable (its run.json or
\* its results.json does not parse), the DIFF stage goes on to the manifest and
\* leaves no diff.csv and no diff_csv artefact.
SameQueryRuns ==
    {d \in Dirs \ {run_dir} : /\ "run.json" \in fs[d].files
                              /\ Strip(fs[d].query) = Strip(query)}

PriorCorrupt ==
    /\ SameQueryRuns # {}
    /\ \A d \in SameQueryRuns : ~fs[d].manifest_ok \/ ~fs[d].results_ok

C15_CorruptPriorGivesNoDiff ==
    [][(pc = "diff" /\ PriorCorrupt) =>
           /\ pc' = "manifest"
           /\ "diff.csv" \notin fs'[run_dir].files
           /\ "diff_csv" \notin artefacts']_vars

\* C19: every invocation of run gets a run directory no other invocation has:
\* the directory it enters did not exist before, so it never writes over the
\* results or the manifest of another run.
C19_UniqueRunDirs ==
    [][runs' = runs + 1 =>
           /\ ~fs[run_dir'].exists
           /\ fs[run_dir'].files \cap RunArtifactFiles = {}]_vars

\* C20: the prior-run lookup never returns the directory being written; it
\* returns a directory exactly when some other run directory has a readable
\* manifest whose query equals the current query after trimming (case kept),
\* and then one of those with the greatest modification time.
Eligible(a) ==
    {d \in Dirs \ {a.current_run_dir} :
        /\ a.root[d].exists
        /\ "run.json" \in a.root[d].files
        /\ a.root[d].manifest_ok
        /\ Strip(a.root[d].query) = Strip(a.query)}

C20_PriorLookup ==
    Returned("_find_previous_run_dir") =>
        /\ ret # args.current_run_dir
        /\ ret = NoDir <=> Eligible(args) = {}
        /\ ret # NoDir =>
              /\ ret \in Eligible(args)
              /\ \A d \in Eligible(args) : args.root[d].mtime <= args.root[ret].mtime

C20_Witness ==
    /\ Returned("_find_previous_run_dir")
    /\ ret # NoDir
    /\ \E d \in Eligible(args) : args.root[d].mtime < args.root[ret].mtime
    /\ "run.json" \in args.root[args.current_run_dir].files
    /\ args.root[args.current_run_dir].mtime > args.root[ret].mtime
    /\ Strip(args.root[args.current_run_dir].query) = Strip(args.query)
    /\ args.root[ret].query # args.query

\* --------------------------------------------- api: per-run schedule toggle
\* Path.unlink: removing a directory entry moves the directory's st_mtime
\* (variant: the file stays)
WithoutFileKept(dir, name, now) == dir

WithoutFile(dir, name, now) ==
    IF name \in dir.files THEN [dir EXCEPT !.files = @ \ {name}, !.mtime = now] ELSE dir

\* the handler answers: the HTTP status goes to ret
Responds(handler, run_id, status) ==
    /\ call' = handler
    /\ args' = run_id
    /\ ret' = status
    /\ cpc' = "returned"
    /\ UNCHANGED <<clock, runs, pc, query, from_year, to_year, enable_sources, run_dir,
                   tasks, raw_blobs, extracted, records, final, artefacts, prev_dir, counts>>
    /\ UNCHANGED <<fetchVars, restVars>>

\* POST /runs/{run_id}/schedule/enable
EnableRunSchedule ==
    /\ pc \in {"idle", "done", "failed"}
    /\ \E d \in Dirs :
        CASE ~fs[d].exists ->
                Responds("enable_run_schedule", d, 404) /\ UNCHANGED fs
          [] fs[d].exists /\ "run.json" \notin fs[d].files ->
                Responds("enable_run_schedule", d, 400) /\ UNCHANGED fs
          [] fs[d].exists /\ "run.json" \in fs[d].files /\ ~fs[d].manifest_ok ->
                Responds("enable_run_schedule", d, 500) /\ UNCHANGED fs
          [] OTHER ->
                /\ Responds("enable_run_schedule", d, 200)
                /\ fs' = [fs EXCEPT ![d] = WithFile(@, "SCHEDULE.txt", clock)]

\* POST /runs/{run_id}/schedule/disable
DisableRunSchedule ==
    /\ pc \in {"idle", "done", "failed"}
    /\ \E d \in Dirs :
        IF ~fs[d].exists
        THEN Responds("disable_run_schedule", d, 404) /\ UNCHANGED fs
        ELSE /\ Responds("disable_run_schedule", d, 200)
             /\ fs' = [fs EXCEPT ![d] = WithoutFile(@, "SCHEDULE.txt", clock)]

NextSchedule ==
    \/ Tick
    \/ StartRun({<<"q">>}, {NoInt}, {NoInt}, {{"crossref"}})
    \/ NextRun({<<"q">>}, {NoInt}, {NoInt}, {{"crossref"}})
    \/ EnableRunSchedule
    \/ DisableRunSchedule
    \/ Plan
    \/ FetchOk(RecordPool)
    \/ FetchRaises
    \/ Extract
    \/ ExtractRaises
    \/ YearFilterStage
    \/ DedupStage
    \/ Persist
    \/ Diff
    \/ Manifest

SpecSchedule == Init /\ [][NextSchedule]_vars

\* C21: after a schedule call that returned 200, SCHEDULE.txt exists in that
\* run directory iff the call was enable (whatever calls came before); disable
\* returns 200 for every existing run directory, with or without SCHEDULE.txt;
\* both calls return 404 exactly for an unknown run and then change no file; a
\* call changes no other run directory.
ScheduleCall == pc' = pc /\ clock' = clock /\ cpc' = "returned"

C21_ScheduleToggle ==
    /\ [](Returned("enable_run_schedule") /\ ret = 200 =>
              "SCHEDULE.txt" \in fs[args].files /\ "run.json" \in fs[args].files)
    /\ [](Returned("disable_run_schedule") /\ ret = 200 =>
              "SCHEDULE.txt" \notin fs[args].files)
    /\ [][ScheduleCall =>
             /\ ret' = 404 <=> ~fs[args'].exists
             /\ ret' # 200 => fs' = fs
             /\ call' = "disable_run_schedule" => ret' \in {200, 404}
             /\ \A d \in Dirs \ {args'} : fs'[d] = fs[d]]_vars

C21_Witness ==
    /\ Returned("disable_run_schedule")
    /\ ret = 200
    /\ "run.json" \in fs[args].files
    /\ "SCHEDULE.txt" \notin fs[args].files
    /\ fs[args].mtime = MaxClock
    /\ \E d \in Dirs \ {args} : "SCHEDULE.txt" \in fs[d].files

\* C22: http_get issues at most `retries` GETs per call; the attempt that gets
\* a status < 400, or a status >= 400 that is not retryable, is the last GET of
\* the call and returns that answer at once, without counting as a retry.
C22_NoRetryOfFinalAnswer ==
    /\ [](attempt <= Retries)
    /\ [](fpc = "page" => /\ resp.status \notin RETRYABLE_STATUS
                          /\ attempt \in 1..Retries)
    /\ [][(fpc = "http" /\ resp' # resp) =>
             /\ fpc' = "page"
             /\ attempt' = attempt + 1
             /\ retryable_seen' = retryable_seen
             /\ last_exc' = last_exc]_vars
    /\ [][(fpc # "http" /\ attempt' # attempt) => (attempt' = 0 /\ fpc' = "http")]_vars

C22_Witness ==
    /\ fpc = "page"
    /\ resp.status = 404
    /\ attempt = 4
    /\ retryable_seen = 2
    /\ last_exc

\* the bodies _paginate_* has appended for the pages of h, in fetch order
PageBodies(h) ==
    LET idx == SelectSeq([i \in 1..Len(h) |-> i], LAMBDA i : ~NoPage(h[i]))
    IN  [j \in 1..Len(idx) |-> Body(idx[j], h[idx[j]])]

C24_DoajPageIndices ==
    /\ (fidx > 0 /\ Task.strategy = "doaj") =>
          /\ fpc \in {"http", "page"} =>
                /\ param = iter
                /\ Len(hist) = iter - 1
                /\ \A k \in 1..Len(hist) :
                      GoodPage(hist[k]) /\ Fetched(hist, k) < Task.limit
          /\ fpc = "next" =>
                /\ param = Len(hist)
                /\ \A k \in 1..(Len(hist) - 1) :
                      GoodPage(hist[k]) /\ Fetched(hist, k) < Task.limit
    /\ (fidx > 0 /\ Task.strategy \in {"crossref", "doaj", "arxiv"}) =>
          /\ iter \in 1..Task.max_pages
          /\ Len(hist) <= Task.max_pages
          /\ fpc \in {"http", "page"} => Len(hist) < Task.max_pages

C24_Witness ==
    /\ fidx > 0
    /\ Task.strategy = "doaj"
    /\ fpc = "next"
    /\ param = MaxPages
    /\ Len(hist) = Task.max_pages
    /\ \A k \in 1..Len(hist) : GoodPage(hist[k]) /\ Fetched(hist, k) < Task.limit

\* ------------------------------ FetchAgent.execute: a list of page specs
MaxSpecs == 9        \* page specs in one source's list

MAX_WORKERS == 8

Future(st, status, empty) == [st |-> st, status |-> status, empty |-> empty]
Queued == Future("queued", NoInt, FALSE)
Running == Future("running", NoInt, FALSE)
Cancelled == Future("cancelled", NoInt, FALSE)

\* how _one ends for page spec i: http_get returned (status, txt), or it
\* raised because its attempts ran out (HttpExhausted). A page that brings no
\* body is answered 404 at an odd position of the list and 200 with an empty
\* text at an even one.
WorkerOutcomes(i) ==
    {Future("done", 200, FALSE),
     IF i % 2 = 1 THEN Future("done", 404, FALSE) ELSE Future("done", 200, TRUE),
     Future("raised", NoInt, FALSE)}

InFlight == {i \in 1..specs : work[i].st = "running"}

\* max_workers = min(8, len(spec))
PoolSize(n) == IF n < MAX_WORKERS THEN n ELSE MAX_WORKERS

\* `with ThreadPoolExecutor(max_workers=...)`: the constructor rejects
\* max_workers = 0 with ValueError; pool.map submits every page spec
PoolOpen ==
    /\ ppc = "start"
    /\ IF PoolSize(specs) = 0
       THEN ppc' = "raised" /\ UNCHANGED work
       ELSE ppc' = "map" /\ work' = [i \in 1..specs |-> Queued]
    /\ UNCHANGED <<specs, taken, parts, entry>>
    /\ UNCHANGED <<runVars, fetchVars, callVars, reqs, kbVars>>

\* an idle worker thread takes the oldest queued page spec and calls _one
WorkerTakes ==
    /\ ppc \in {"map", "closing"}
    /\ Cardinality(InFlight) < PoolSize(specs)
    /\ \E i \in 1..specs :
          /\ work[i].st = "queued"
          /\ \A j \in 1..(i - 1) : work[j].st # "queued"
          /\ work' = [work EXCEPT ![i] = Running]
    /\ UNCHANGED <<specs, taken, parts, entry, ppc>>
    /\ UNCHANGED <<runVars, fetchVars, callVars, reqs, kbVars>>

\* _one returns (status, txt) or raises; the future keeps the outcome
WorkerDone ==
    /\ \E i \in InFlight : \E o \in WorkerOutcomes(i) : work' = [work EXCEPT ![i] = o]
    /\ UNCHANGED <<specs, taken, parts, entry, ppc>>
    /\ UNCHANGED <<runVars, fetchVars, callVars, reqs, kbVars>>

\* the calling thread draws the next result of pool.map, in list order:
\* `if status == 200 and txt: parts.append(txt)`; the result of a future that
\* raised is re-raised and the futures still queued are cancelled
CallerTakes ==
    /\ ppc = "map"
    /\ taken < specs
    /\ work[taken + 1].st \in {"done", "raised"}
    /\ IF work[taken + 1].st = "done"
       THEN /\ taken' = taken + 1
            /\ parts' = IF work[taken + 1].status = 200 /\ ~work[taken + 1].empty
                        THEN Append(parts, taken + 1) ELSE parts
            /\ UNCHANGED <<work, ppc>>
       ELSE /\ ppc' = "closing"
            /\ work' = [i \in 1..specs |-> IF work[i].st = "queued" THEN Cancelled ELSE work[i]]
            /\ UNCHANGED <<taken, parts>>
    /\ UNCHANGED <<specs, entry>>
    /\ UNCHANGED <<runVars, fetchVars, callVars, reqs, kbVars>>

\* pool.map is used up: the with block ends and `blobs[source] = parts`
CallerStores ==
    /\ ppc = "map"
    /\ taken = specs
    /\ entry' = parts
    /\ ppc' = "stored"
    /\ UNCHANGED <<specs, work, taken, parts>>
    /\ UNCHANGED <<runVars, fetchVars, callVars, reqs, kbVars>>

\* the with block is left by the exception once the running workers have
\* ended; the exception leaves execute
CallerRaises ==
    /\ ppc = "closing"
    /\ InFlight = {}
    /\ ppc' = "raised"
    /\ UNCHANGED <<specs, work, taken, parts, entry>>
    /\ UNCHANGED <<runVars, fetchVars, callVars, reqs, kbVars>>

PoolInit ==
    /\ specs \in 0..MaxSpecs
    /\ work = [i \in 1..specs |-> Queued]
    /\ taken = 0
    /\ parts = <<>>
    /\ entry = <<>>
    /\ ppc = "start"

InitPool == RunInit /\ FetchIdle /\ CallIdle /\ PoolInit /\ reqs = NoRequests /\ KbInit

NextPool ==
    \/ PoolOpen
    \/ WorkerTakes
    \/ WorkerDone
    \/ CallerTakes
    \/ CallerStores
    \/ CallerRaises

SpecPool == InitPool /\ [][NextPool]_vars

\* the bodies of the page specs whose request came back with status 200 and
\* a body, in list order
GoodBodies == SelectSeq([i \in 1..specs |-> i],
                        LAMBDA i : work[i].st = "done" /\ work[i].status = 200 /\ ~work[i].empty)

\* C25: at most 8 page requests are in flight; the body list changes only by
\* the calling thread appending the body of a worker that has ended; and once
\* every page spec of the list has been answered and execute is through with
\* the source, blobs[source] holds exactly the bodies of the pages that came
\* back with status 200 and a body.
C25_ListModeFetch ==
    /\ [](Cardinality(InFlight) <= 8)
    /\ [][parts' # parts =>
            /\ ppc = "map"
            /\ work[taken + 1].st = "done"
            /\ work' = work
            /\ parts' = Append(parts, taken + 1)]_vars
    /\ [][entry' # entry => (ppc = "map" /\ ppc' = "stored" /\ work' = work)]_vars
    /\ []((ppc \in {"stored", "raised"} /\ InFlight = {}) =>
            (ppc = "stored" /\ entry = GoodBodies))

ParsedPool ==
    {Rec("crossref", NormaliseDoi(d), NoStr, "t1", NoStr) : d \in DoiInputs}
        \cup {Rec("arxiv", NormaliseDoi(d), <<"x">>, "t2", NoStr) : d \in {NoStr, <<"a">>}}

NextParsed ==
    \/ Tick
    \/ StartRun({<<"q">>}, {NoInt}, {NoInt}, {{"arxiv", "crossref"}})
    \/ Plan
    \/ FetchOk(ParsedPool)
    \/ FetchRaises
    \/ Extract
    \/ ExtractRaises
    \/ YearFilterStage
    \/ DedupStage
    \/ Persist
    \/ Diff
    \/ Manifest

SpecParsed == Init /\ [][NextParsed]_vars

\* _write_sqlite into a new file: INSERT OR IGNORE under UNIQUE(primary_id)
\* drops a row whose primary_id is not NULL and is already in the table
WriteSqlite(rows) ==
    LET kept == SelectSeq([i \in 1..Len(rows) |-> i],
                          LAMBDA i : \/ rows[i].primary_id = NoStr
                                     \/ \A j \in 1..(i - 1) :
                                            rows[j].primary_id # rows[i].primary_id)
    IN  [k \in 1..Len(kept) |-> rows[kept[k]]]

\* C27: every row of a run's results.json has a primary_id, no two rows of it
\* have the same one, and so the SQLite table holds as many rows as
\* results.json.
C27_PrimaryIdsDistinct ==
    (pc \in {"diff", "manifest", "done"} /\ run_dir # NoDir) =>
        LET rows == fs[run_dir].results
        IN  /\ \A i \in 1..Len(rows) : rows[i].primary_id # NoStr
            /\ \A i, j \in 1..Len(rows) : i # j => rows[i].primary_id # rows[j].primary_id
            /\ Len(WriteSqlite(rows)) = Len(rows)

\* the largest number of items on one page of h
LargestPage(h) ==
    IF h = <<>> THEN 0
    ELSE CHOOSE m \in {h[i].n : i \in 1..Len(h)} : \A i \in 1..Len(h) : h[i].n <= m

\* C28: for each paginated strategy, a page is requested only while the
\* running count is under the cap, and the count the loop ends with is under
\* the cap plus the largest page the server sent, so under limit + page size
\* when no page has more than page-size items.
C28_OvershootBounded ==
    (fidx > 0 /\ Task.strategy \in {"crossref", "doaj", "arxiv"}) =>
        /\ fetched = SeqSum([i \in 1..Len(out) |-> out[i].n])
        /\ fpc \in {"http", "page"} => fetched < Task.limit
        /\ fpc = "next" =>
              /\ fetched <= Fetched(hist, Len(hist))
              /\ hist # <<>> => fetched - hist[Len(hist)].n < Task.limit
              /\ fetched < Task.limit + LargestPage(hist)
              /\ (\A i \in 1..Len(hist) : hist[i].n <= PAGE_SIZE)
                    => fetched < Task.limit + PAGE_SIZE

C28_Witness ==
    /\ fidx > 0
    /\ Task.strategy = "arxiv"
    /\ fpc = "next"
    /\ Len(hist) = 2
    /\ fetched = Task.limit + MaxItems - 1
    /\ fetched > Task.limit

\* ------------------------------------------- api: concurrent run requests
\* sorted(OUT_ROOT.glob("run_*"))[-1]: the run directory with the greatest name
LatestRunDir(root) ==
    CHOOSE d \in Dirs : root[d].exists /\ \A e \in Dirs : root[e].exists => e <= d

\* what a request thread leaves alone
RequestFrame ==
    /\ UNCHANGED <<runs, pc, query, from_year, to_year, enable_sources, run_dir,
                   tasks, raw_blobs, extracted, records, final, artefacts, prev_dir, counts>>
    /\ UNCHANGED <<fetchVars, callVars, poolVars, kbVars>>

\* POST /runs, or POST /jobs/{job_id}/run for a job with a past run: the
\* handler calls agent.run, which makes the directory run_<now>
RequestStarts(r) ==
    /\ reqs[r].rpc = "idle"
    /\ \E h \in {"create_run", "job_run_now"} :
          /\ h = "job_run_now" => \E d \in Dirs : "run.json" \in fs[d].files
          /\ reqs' = [reqs EXCEPT ![r] = Request(h, "running", clock, -1, -1)]
    /\ fs' = [fs EXCEPT ![clock] = WithFile(Mkdir(@, clock), "aro_agent.log", clock)]
    /\ UNCHANGED clock
    /\ RequestFrame

\* POST /jobs/{job_id}/run for a job without a past run
RequestRejected(r) ==
    /\ reqs[r].rpc = "idle"
    /\ \A d \in Dirs : "run.json" \notin fs[d].files
    /\ reqs' = [reqs EXCEPT ![r] = Request("job_run_now", "answered", -1, 400, -1)]
    /\ UNCHANGED <<clock, fs>>
    /\ RequestFrame

\* agent.run returns, its results and run.json written
RequestRunReturns(r) ==
    /\ reqs[r].rpc = "running"
    /\ reqs' = [reqs EXCEPT ![r].rpc = "ran"]
    /\ fs' = [fs EXCEPT ![reqs[r].dir] =
                 WithFiles(@, ResultFiles \o <<"run.json">>, clock)]
    /\ UNCHANGED clock
    /\ RequestFrame

\* agent.run raises: the request is answered 500
RequestRunRaises(r) ==
    /\ reqs[r].rpc = "running"
    /\ reqs' = [reqs EXCEPT ![r].rpc = "answered", ![r].status = 500]
    /\ UNCHANGED <<clock, fs>>
    /\ RequestFrame

\* the handler looks up the latest run directory and answers with its name
RequestAnswers(r) ==
    /\ reqs[r].rpc = "ran"
    /\ reqs' = [reqs EXCEPT ![r].rpc = "answered", ![r].status = 200,
                            ![r].run_id = LatestRunDir(fs)]
    /\ UNCHANGED <<clock, fs>>
    /\ RequestFrame

NextRequests ==
    \/ Tick
    \/ \E r \in 1..MaxRequests : RequestStarts(r)
    \/ \E r \in 1..MaxRequests : RequestRejected(r)
    \/ \E r \in 1..MaxRequests : RequestRunReturns(r)
    \/ \E r \in 1..MaxRequests : RequestRunRaises(r)
    \/ \E r \in 1..MaxRequests : RequestAnswers(r)

SpecRequests == Init /\ [][NextRequests]_vars

\* C29: a run request answered 200 names as run_id the directory its own
\* call of agent.run made, however the requests interleave.
C29_ReportsOwnRun ==
    \A r \in 1..MaxRequests :
        (reqs[r].rpc = "answered" /\ reqs[r].status = 200) => reqs[r].run_id = reqs[r].dir

\* ------------------------------------------------ Bob, the warehouse agent
MaxReserve == 43     \* the largest N of a reserve message

\* the SKUs Alice can name: Bob's two and one he does not know
SkuNames == DOMAIN KB0 \cup {"SKU-NONE"}

\* the N of (reserve SKU N) as msgA_reserve formats an int
ReserveAmounts == -1..MaxReserve

\* a stock test that lets every reservation through
EnoughAlways(qty, n) == TRUE

\* `if KB[model]["qty"] >= n`
Enough(qty, n) == qty >= n

\* receive_kqml for (achieve ... :content (reserve sku n)): the pattern
\* \(reserve\s+([^\s\)]+)\s+([0-9]+)\) does not match a signed number, and then
\* the handler falls through to "not-understood"
AchieveReserve(sku, n) ==
    /\ IF n < 0
       THEN /\ reply' = Reply("reserve", sku, n, "sorry")
            /\ UNCHANGED <<kb, reserved>>
       ELSE IF sku \notin DOMAIN kb
       THEN /\ reply' = Reply("reserve", sku, n, "deny")
            /\ UNCHANGED <<kb, reserved>>
       ELSE IF Enough(kb[sku], n)
       THEN /\ kb' = [kb EXCEPT ![sku] = @ - n]
            /\ reserved' = [reserved EXCEPT ![sku] = @ + n]
            /\ reply' = Reply("reserve", sku, n, "tell")
       ELSE /\ reply' = Reply("reserve", sku, n, "deny")
            /\ UNCHANGED <<kb, reserved>>
    /\ UNCHANGED <<runVars, fetchVars, callVars, poolVars, reqs>>

\* receive_kqml for (ask-all ...): the facts of every 50-inch model
AskAll ==
    /\ reply' = Reply("ask-all", "", 0, "tell")
    /\ UNCHANGED <<kb, reserved>>
    /\ UNCHANGED <<runVars, fetchVars, callVars, poolVars, reqs>>

NextBob ==
    \/ \E sku \in SkuNames, n \in ReserveAmounts : AchieveReserve(sku, n)
    \/ AskAll

SpecBob == Init /\ [][NextBob]_vars

\* C30: every SKU's quantity is >= 0 and is its initial quantity minus what
\* Bob has granted; a reserve of N >= 0 is answered tell exactly when the SKU
\* is known and N is at most the quantity at that moment, and deny otherwise;
\* and an answer other than tell to a reserve leaves the KB as it was.
C30_StockConservation ==
    /\ [](\A s \in DOMAIN KB0 : kb[s] >= 0 /\ kb[s] = KB0[s] - reserved[s])
    /\ [](DOMAIN kb = DOMAIN KB0)
    /\ [][(reply'.msg = "reserve" /\ reply'.n >= 0) =>
            /\ reply'.perf \in {"tell", "deny"}
            /\ reply'.perf = "tell" <=>
                  (reply'.sku \in DOMAIN kb /\ reply'.n <= kb[reply'.sku])
            /\ reply'.perf = "tell" =>
                  kb' = [kb EXCEPT ![reply'.sku] = @ - reply'.n]]_kbVars
    /\ [][reply'.perf # "tell" => kb' = kb]_kbVars

C30_Witness ==
    /\ kb["SKU-50TV-XYZ"] = 0
    /\ kb["SKU-50TV-ABC"] = 37
    /\ reserved["SKU-50TV-XYZ"] = 17
    /\ reply = Reply("reserve", "SKU-50TV-XYZ", 1, "deny")

====
